---- MODULE Spec2Model ----
(***************************************************************************)
(* Model of the face + QR verification backend (backend/app.py,            *)
(* backend/database.py, backend/liveness.py, backend/face_utils.py).       *)
(*                                                                         *)
(* Text values are modelled as sequences of text chunks (a token "EMP:7"   *)
(* is <<"EMP:", "7">>, a blank is " "), optional values as sequences of     *)
(* length at most one (None is <<>>, a present value v is <<v>>).          *)
(* Instants are counted in ticks; an ISO timestamp is <<date, second>>.    *)
(***************************************************************************)
EXTENDS Integers, Sequences, FiniteSets, TLC

VARIABLES users, events, clock, req, auditFailed, completed, scan, query, conc

vars == <<users, events, clock, req, auditFailed, completed, scan, query, conc>>

\* -------------------------------------------------------------- bounds
MaxUsers == 2
MaxRequests == 2
MaxClock == 3
MaxFrames == 4
MaxLedger == 3
MaxProcs == 2

\* -------------------------------------------------------------- options
None == <<>>
Some(v) == <<v>>
IsSome(o) == Len(o) > 0
Get(o) == o[1]

\* -------------------------------------------------------------- time
\* The clock counts ticks; a second has TicksPerSec ticks (the sub-second
\* part that _utcnow_iso drops), a day has SecsPerDay seconds.
TicksPerSec == 2
SecsPerDay == 2
LastSecond == SecsPerDay - 1
\* A date text that is not a calendar date ("abc").
BadDate == 99

\* datetime.utcnow().replace(microsecond=0).isoformat()
_utcnow_iso(now) ==
    LET sec == now \div TicksPerSec
    IN  <<sec \div SecsPerDay, sec % SecsPerDay>>

_date_to_iso_start(date_str) == <<date_str, 0>>

_date_to_iso_end(date_str) == <<date_str, LastSecond>>

\* datetime.fromisoformat: raises ValueError on a text that is no date.
IsoParses(iso) == iso[1] # BadDate

fromisoformat(iso) == (iso[1] * SecsPerDay + iso[2]) * TicksPerSec

\* Textual comparison of two ISO strings (SQLite TEXT comparison).
IsoLeq(a, b) == a[1] < b[1] \/ (a[1] = b[1] /\ a[2] <= b[2])

\* -------------------------------------------------------------- text
\* str.strip(): drops the blanks at both ends.
RECURSIVE LStrip(_)
LStrip(s) == IF s # <<>> /\ Head(s) = " " THEN LStrip(Tail(s)) ELSE s

RECURSIVE RStrip(_)
RStrip(s) ==
    IF s # <<>> /\ s[Len(s)] = " " THEN RStrip(SubSeq(s, 1, Len(s) - 1)) ELSE s

Strip(s) == RStrip(LStrip(s))

\* f"EMP:{user_id}"
EMP(user_id) == <<"EMP:", ToString(user_id)>>

\* f"TMP:{uuid4().hex}": n stands for the random hex text.
TMP(n) == <<"TMP:", "u", ToString(n)>>

\* str.upper() on the direction texts a client sends.
Upper(s) ==
    CASE s = "in" -> "IN"
      [] s = "out" -> "OUT"
      [] s = "up" -> "UP"
      [] OTHER -> s

\* A JSON number sent where a text is expected: it has no upper() and no
\* strip(), so the attribute lookup raises AttributeError.
JsonNumber == "#7"

IsStr(v) == v # JsonNumber

\* -------------------------------------------------------------- frames
\* A frame is the text a client sends: an optional data-URL header and a
\* body.  The body names what the image libraries make of it:
\*   "bad"    not base64 (base64.b64decode raises)
\*   "junk"   base64 of bytes that are no image (cv2.imdecode gives None)
\*   "blank"  an image without a face
\*   "trap"   an image on which the landmark provider raises
\*   other    an image with one face, see Ear and Embedding
Hdr == "data:image/jpeg;base64,"

Body(frame) == frame[Len(frame)]

FaceBodies == {"open_a", "shut_a", "edge_a", "open_b", "shut_b", "near_a", "rim_a"}

\* Averaged eye aspect ratio in hundredths, for the frames with landmarks.
Ear(body) ==
    CASE body \in {"shut_a", "shut_b"} -> 15
      [] body = "edge_a" -> 21
      [] OTHER -> 30

\* The face embedding in tenths (one coordinate), for the frames with a face.
Embedding(body) ==
    CASE body \in {"open_a", "shut_a", "edge_a"} -> 0
      [] body = "near_a" -> 3
      [] body = "rim_a" -> 6
      [] OTHER -> 20

EAR_THRESHOLD == 21
CONSEC_FRAMES_FOR_BLINK == 2
\* Mutant: the blink run length is taken for the minimum frame count.
MinFrames_BlinkRun == CONSEC_FRAMES_FOR_BLINK

MinFrames == 3
MatchThreshold == 6

\* -------------------------------------------------------------- liveness
\* liveness._decode_base64_image: the image, or None when the text is not
\* base64 or the bytes are no image (the exception is caught).
_decode_base64_image(frame) ==
    IF Body(frame) \in {"bad", "junk"} THEN None ELSE Some(Body(frame))

\* Lines 56-60: the frames that decode, in the supplied order.
RECURSIVE DecodeFrames(_)
DecodeFrames(frames_b64) ==
    IF frames_b64 = <<>> THEN <<>>
    ELSE LET img == _decode_base64_image(Head(frames_b64))
         IN  (IF IsSome(img) THEN <<Get(img)>> ELSE <<>>)
                 \o DecodeFrames(Tail(frames_b64))

\* face_mesh.process(rgb).multi_face_landmarks: empty for an image
\* without a face.
HasLandmarks(img) == img \in FaceBodies

\* face_mesh.process(rgb) raises on this image (line 79 is in no try).
ProviderRaises(img) == img = "trap"

\* One iteration of the loop at lines 77-97 on the scan state
\* [consec_below, blink_detected, calls].
ScanFrame(st, img) ==
    IF ~HasLandmarks(img)
    THEN [st EXCEPT !.consec_below = 0, !.calls = @ + 1]
    ELSE IF Ear(img) < EAR_THRESHOLD
         THEN [consec_below |-> st.consec_below + 1,
               blink_detected |-> st.blink_detected
                   \/ st.consec_below + 1 >= CONSEC_FRAMES_FOR_BLINK,
               calls |-> st.calls + 1]
         ELSE [st EXCEPT !.consec_below = 0, !.calls = @ + 1]

ScanStart == [consec_below |-> 0, blink_detected |-> FALSE, calls |-> 0]

RECURSIVE ScanAll(_, _)
ScanAll(st, imgs) ==
    IF imgs = <<>> THEN st ELSE ScanAll(ScanFrame(st, Head(imgs)), Tail(imgs))

\* The call raises: the loop of lines 77-97 reaches an image on which the
\* provider raises (nothing ends the loop early).
LiveRaises(frames_b64) ==
    LET decoded_frames == DecodeFrames(frames_b64)
    IN  /\ Len(decoded_frames) >= MinFrames
        /\ \E i \in 1..Len(decoded_frames) : ProviderRaises(decoded_frames[i])

\* liveness.is_live_from_base64_frames, as a function of the frames (for
\* the calls that return).
is_live_from_base64_frames(frames_b64) ==
    LET decoded_frames == DecodeFrames(frames_b64)
    IN  IF Len(decoded_frames) < MinFrames
        THEN FALSE
        ELSE ScanAll(ScanStart, decoded_frames).blink_detected

\* The same function step by step: scan is the state of one call.
ScanIdle ==
    [pc |-> "idle", frames |-> <<>>, decoded |-> <<>>, i |-> 0,
     st |-> ScanStart, result |-> FALSE]

\* The frame texts the liveness scan is explored on.
LiveFrames ==
    {<<"bad">>, <<"junk">>, <<"blank">>, <<"open_a">>, <<"shut_a">>, <<"edge_a">>,
     <<"trap">>}

RECURSIVE SeqsUpTo(_, _)
SeqsUpTo(S, n) ==
    IF n = 0 THEN {<<>>}
    ELSE LET shorter == SeqsUpTo(S, n - 1)
         IN  shorter \cup {Append(s, x) : s \in {t \in shorter : Len(t) = n - 1}, x \in S}

\* Lines 56-64: decode every frame, give up below the minimum count.
LiveDecode ==
    /\ scan.pc = "call"
    /\ LET decoded_frames == DecodeFrames(scan.frames)
       IN  IF Len(decoded_frames) < MinFrames
           THEN scan' = [scan EXCEPT !.pc = "done", !.decoded = decoded_frames,
                                     !.result = FALSE]
           ELSE scan' = [scan EXCEPT !.pc = "loop", !.decoded = decoded_frames,
                                     !.i = 1]
    /\ UNCHANGED <<users, events, clock, req, auditFailed, completed, query, conc>>

\* Lines 77-97: one frame of the scan.  An exception of the provider
\* leaves the function.
LiveFrame ==
    /\ scan.pc = "loop"
    /\ scan.i <= Len(scan.decoded)
    /\ IF ProviderRaises(scan.decoded[scan.i])
       THEN scan' = [scan EXCEPT !.pc = "raised", !.st.calls = @ + 1]
       ELSE scan' = [scan EXCEPT !.st = ScanFrame(scan.st, scan.decoded[scan.i]),
                                 !.i = @ + 1]
    /\ UNCHANGED <<users, events, clock, req, auditFailed, completed, query, conc>>

\* Line 99: return blink_detected.
LiveReturn ==
    /\ scan.pc = "loop"
    /\ scan.i > Len(scan.decoded)
    /\ scan' = [scan EXCEPT !.pc = "done", !.result = scan.st.blink_detected]
    /\ UNCHANGED <<users, events, clock, req, auditFailed, completed, query, conc>>

\* -------------------------------------------------------------- store
\* database.get_user_by_qr: SELECT * FROM users WHERE qr_code = ?, fetchone.
get_user_by_qr(us, qr_code) ==
    LET hits == {i \in 1..Len(us) : us[i].qr_code = qr_code}
    IN  IF hits = {} THEN None
        ELSE Some(us[CHOOSE i \in hits : \A j \in hits : i <= j])

\* The UNIQUE constraint on users.qr_code, for a row about to take qr_code.
TokenTaken(us, qr_code, except_id) ==
    \E i \in 1..Len(us) : us[i].id # except_id /\ us[i].qr_code = qr_code

\* The row database.insert_event writes: AUTOINCREMENT gives the next id.
EventRow(evs, user_id, timestamp_iso, direction, status, error_code, qr_code, attempt_image_b64) ==
    [id |-> Len(evs) + 1, user_id |-> user_id, timestamp |-> timestamp_iso,
     direction |-> direction, status |-> status, error_code |-> error_code,
     qr_code |-> qr_code, attempt_image_b64 |-> attempt_image_b64]

\* Mutant: an event of a token that already has one takes its place.
insert_event_Upsert(evs, user_id, timestamp_iso, direction, status, error_code, qr_code, attempt_image_b64) ==
    LET same == {i \in 1..Len(evs) : evs[i].qr_code = qr_code}
        row == EventRow(evs, user_id, timestamp_iso, direction, status,
                        error_code, qr_code, attempt_image_b64)
    IN  IF same = {} THEN Append(evs, row)
        ELSE [evs EXCEPT ![CHOOSE i \in same : TRUE] = row]

\* database.insert_event: one INSERT, committed.
insert_event(evs, user_id, timestamp_iso, direction, status, error_code, qr_code, attempt_image_b64) ==
    Append(evs, EventRow(evs, user_id, timestamp_iso, direction, status,
                         error_code, qr_code, attempt_image_b64))

\* -------------------------------------------------------------- face match
\* json.dumps(encoding.tolist()) and json.loads.
json_dumps(v) == <<"[", v, "]">>

json_loads(t) == t[2]

\* face_utils._decode_base64_to_rgb: no try around base64.b64decode, so a
\* text that is not base64 raises; bytes that are no image give None.
_decode_base64_to_rgb(frame) ==
    CASE Body(frame) = "bad" -> [raised |-> TRUE, value |-> None]
      [] Body(frame) = "junk" -> [raised |-> FALSE, value |-> None]
      [] OTHER -> [raised |-> FALSE, value |-> Some(Body(frame))]

\* face_recognition.face_encodings of an image: at most one face here.
FaceEncodings(img) == IF img \in FaceBodies THEN <<Embedding(img)>> ELSE <<>>

\* face_recognition.face_distance on one coordinate.
face_distance(a, b) == IF a >= b THEN a - b ELSE b - a

\* face_utils.compare_face_with_user.
compare_face_with_user(user_row, frame_b64) ==
    LET rgb_image == _decode_base64_to_rgb(frame_b64)
    IN  IF rgb_image.raised THEN [raised |-> TRUE, value |-> FALSE]
        ELSE IF rgb_image.value = None THEN [raised |-> FALSE, value |-> FALSE]
        ELSE LET encodings == FaceEncodings(Get(rgb_image.value))
             IN  IF encodings = <<>> THEN [raised |-> FALSE, value |-> FALSE]
                 ELSE [raised |-> FALSE,
                       value |-> face_distance(json_loads(user_row.face_encoding),
                                               encodings[1]) < MatchThreshold]

\* -------------------------------------------------------------- verify
\* Mutant: the direction is recorded as it was sent.
Direction_AsSent(data) ==
    IF IsSome(data.direction) /\ Get(data.direction) # ""
    THEN Get(data.direction) ELSE "IN"

\* Lines 117-119: the direction recorded for a request (a text or nothing).
Direction(data) ==
    LET direction == Upper(IF IsSome(data.direction) /\ Get(data.direction) # ""
                           THEN Get(data.direction) ELSE "IN")
    IN  IF direction \notin {"IN", "OUT"} THEN "UNKNOWN" ELSE direction

\* Line 115: (data.get("qr_code") or "").strip()
QrCode(data) == Strip(IF IsSome(data.qr_code) THEN Get(data.qr_code) ELSE <<>>)

\* Mutant: the first frame is kept as evidence.
AttemptImage_First(frames) == IF frames # <<>> THEN Some(frames[1]) ELSE None

\* Line 121: frames[-1] if frames else None
AttemptImage(frames) == IF frames # <<>> THEN Some(frames[Len(frames)]) ELSE None

\* The status tag of the response each terminal branch returns.
StatusTag(code) ==
    CASE code = "MISSING_DATA" -> "error"
      [] code = "NO_BLINK" -> "spoofing"
      [] code \in {"UNKNOWN_QR", "FACE_MISMATCH"} -> "fraud"
      [] code = "QR_EXPIRED" -> "expired"
      [] code = "OK" -> "success"

\* Mutant: the event is written without the identity.
ResolvedId_Null(user_row) == None

\* user["id"], the identity reference of the events written after the
\* lookup (lines 205, 232, 253).
ResolvedId(user_row) == Some(user_row.id)

\* Mutant: an expiry text that does not parse counts as expired.
Expired_FailClosed(expires_at, T) ==
    /\ IsSome(expires_at)
    /\ IsoParses(Get(expires_at)) => T > fromisoformat(Get(expires_at))

\* Lines 198-202 and 222: the token has an expiry, the text parses and the
\* instant T read at line 202 is after it; a ValueError of fromisoformat is
\* caught at line 222.
Expired(expires_at, T) ==
    /\ IsSome(expires_at)
    /\ IsoParses(Get(expires_at))
    /\ T > fromisoformat(Get(expires_at))

\* A terminal branch of verify: one insert_event, then the response.  wok
\* says whether the insert commits; when it raises, the response is the
\* branch's own only where the call sits in a try (suppress), otherwise
\* the exception leaves verify ("fault").  prior lists the codes of
\* inserts that raised earlier in the request.
Terminal(evs, calls, user_id, now_iso, direction, code, qr_code, image, wok, suppress, prior) ==
    [events |-> IF wok
                THEN insert_event(evs, user_id, now_iso, direction,
                                  IF code = "OK" THEN "OK" ELSE "FAIL",
                                  IF code = "OK" THEN None ELSE Some(code),
                                  qr_code, image)
                ELSE evs,
     calls |-> calls,
     code |-> code,
     result |-> IF wok \/ suppress THEN StatusTag(code) ELSE "fault",
     failed |-> IF wok THEN prior ELSE Append(prior, code)]

\* app.verify (lines 113-267) on the identity store us and the ledger evs:
\* now is the instant read at line 122, T the instant read at line 202,
\* w1 and w2 say whether the first and the second insert_event commit.
verify(us, evs, now, T, data, w1, w2) ==
    LET qr_code == QrCode(data)
        frames == data.frames
        direction == Direction(data)
        attempt_image_b64 == AttemptImage(frames)
        now_iso == _utcnow_iso(now)
        raised == [events |-> evs, calls |-> <<>>, code |-> "RAISED",
                   result |-> "fault", failed |-> <<>>]
    IN  IF IsSome(data.direction) /\ ~IsStr(Get(data.direction))
        THEN raised
        ELSE IF qr_code = <<>> \/ frames = <<>>
        THEN Terminal(evs, <<"validate">>, None, now_iso, direction,
                      "MISSING_DATA",
                      IF qr_code = <<>> THEN None ELSE Some(qr_code),
                      attempt_image_b64, w1, TRUE, <<>>)
        ELSE IF LiveRaises(frames)
        THEN [raised EXCEPT !.calls = <<"validate", "liveness">>]
        ELSE IF ~is_live_from_base64_frames(frames)
        THEN Terminal(evs, <<"validate", "liveness">>, None, now_iso, direction,
                      "NO_BLINK", Some(qr_code), attempt_image_b64,
                      w1, FALSE, <<>>)
        ELSE LET user == get_user_by_qr(us, qr_code)
                 stages == <<"validate", "liveness", "resolve">>
             IN  IF user = None
                 THEN Terminal(evs, stages, None, now_iso, direction,
                               "UNKNOWN_QR", Some(qr_code), attempt_image_b64,
                               w1, FALSE, <<>>)
                 ELSE LET expires_at == Get(user).qr_expires_at
                          expired == Expired(expires_at, T)
                          user_id == ResolvedId(Get(user))
                      IN  IF expired /\ w1
                          THEN Terminal(evs, Append(stages, "expiry"), user_id,
                                        now_iso, direction, "QR_EXPIRED",
                                        Some(qr_code), attempt_image_b64,
                                        TRUE, FALSE, <<>>)
                          ELSE
                          \* Not expired, no or an unparsable expiry, or the
                          \* insert at line 203 raised inside the try of line
                          \* 200 and line 222 swallowed it: go on to the match.
                          LET prior == IF expired THEN <<"QR_EXPIRED">> ELSE <<>>
                              wok == IF expired THEN w2 ELSE w1
                              all == stages \o <<"expiry", "match">>
                              is_match == compare_face_with_user(
                                              Get(user), Get(attempt_image_b64))
                          IN  IF is_match.raised
                              THEN [events |-> evs, calls |-> all,
                                    code |-> "RAISED", result |-> "fault",
                                    failed |-> prior]
                              ELSE IF ~is_match.value
                              THEN Terminal(evs, all, user_id, now_iso, direction,
                                            "FACE_MISMATCH", Some(qr_code),
                                            attempt_image_b64, wok, FALSE, prior)
                              ELSE Terminal(evs, all, user_id, now_iso, direction,
                                            "OK", Some(qr_code), None,
                                            wok, FALSE, prior)

\* The record of no request.
NoRequest ==
    [op |-> "none", data |-> [qr_code |-> None, frames |-> <<>>, direction |-> None],
     qr_code |-> <<>>, now |-> 0, T |-> 0,
     calls |-> <<>>, code |-> "", result |-> "", failed |-> <<>>,
     form |-> <<>>, ret |-> None]

\* One POST /verify, from the request to the response.  The handler reads
\* the clock twice; dt is the time that passes in between.
Verify(data, dt, w1, w2) ==
    /\ completed < MaxRequests
    /\ clock + dt <= MaxClock
    /\ \E out \in {verify(users, events, clock, clock + dt, data, w1, w2)} :
           /\ events' = out.events
           /\ auditFailed' = (auditFailed \/ out.failed # <<>>)
           /\ req' = [NoRequest EXCEPT !.op = "verify", !.data = data,
                                       !.qr_code = QrCode(data),
                                       !.now = clock, !.T = clock + dt,
                                       !.calls = out.calls, !.code = out.code,
                                       !.result = out.result,
                                       !.failed = out.failed]
    /\ clock' = clock + dt
    /\ completed' = completed + 1
    /\ UNCHANGED <<users, scan, query, conc>>

\* Time passes between requests.
Tick ==
    /\ clock < MaxClock
    /\ clock' = clock + 1
    /\ UNCHANGED <<users, events, req, auditFailed, completed, scan, query, conc>>

\* -------------------------------------------------------------- enrollment
\* Mutant: an image without a face is not rejected.
extract_face_encoding_from_rgb_NoFaceCheck(rgb_image) ==
    IF rgb_image = None
    THEN [error |-> Some("Nie udalo sie zdekodowac obrazu."), value |-> <<>>]
    ELSE [error |-> None, value |-> json_dumps(Embedding(Get(rgb_image)))]

\* face_utils.extract_face_encoding_from_rgb: the JSON text of the first
\* face's encoding, or a ValueError (error holds its message).
extract_face_encoding_from_rgb(rgb_image) ==
    IF rgb_image = None
    THEN [error |-> Some("Nie udalo sie zdekodowac obrazu."), value |-> <<>>]
    ELSE IF FaceEncodings(Get(rgb_image)) = <<>>
    THEN [error |-> Some("Nie wykryto twarzy na obrazie."), value |-> <<>>]
    ELSE [error |-> None, value |-> json_dumps(FaceEncodings(Get(rgb_image))[1])]

\* face_utils.extract_face_encoding_from_base64_image: the decoder's own
\* exception passes through.
extract_face_encoding_from_base64_image(b64_string) ==
    LET rgb == _decode_base64_to_rgb(b64_string)
    IN  IF rgb.raised THEN [error |-> Some("Incorrect padding"), value |-> <<>>]
        ELSE extract_face_encoding_from_rgb(rgb.value)

\* face_utils._decode_bytes_to_rgb: None for bytes that are no image.
_decode_bytes_to_rgb(image_bytes) ==
    IF image_bytes \in {"junk", "bad"} THEN None ELSE Some(image_bytes)

extract_face_encoding_from_image_bytes(image_bytes) ==
    extract_face_encoding_from_rgb(_decode_bytes_to_rgb(image_bytes))

\* " ".join([p for p in [first_name, last_name] if p]).strip() or "Pracownik"
FullName(first_name, last_name) ==
    LET joined == IF first_name # <<>> /\ last_name # <<>>
                  THEN first_name \o <<" ">> \o last_name
                  ELSE first_name \o last_name
    IN  IF Strip(joined) = <<>> THEN <<"Pracownik">> ELSE Strip(joined)

\* Mutant: the connection commits each statement by itself, so the row of
\* the INSERT stays when the UPDATE is rejected.
create_user_Autocommit(us, first_name, last_name, face_encoding_json, qr_expires_at_iso) ==
    LET user_id == Len(us) + 1
        inserted == Append(us, [id |-> user_id,
                                name |-> FullName(Strip(first_name), Strip(last_name)),
                                qr_code |-> TMP(user_id),
                                face_encoding |-> face_encoding_json,
                                first_name |-> Some(Strip(first_name)),
                                last_name |-> Some(Strip(last_name)),
                                qr_expires_at |-> qr_expires_at_iso])
    IN  IF TokenTaken(inserted, EMP(user_id), user_id)
        THEN [raised |-> TRUE, users |-> inserted, ret |-> None]
        ELSE [raised |-> FALSE,
              users |-> [inserted EXCEPT ![user_id].qr_code = EMP(user_id)],
              ret |-> Some(<<user_id, EMP(user_id)>>)]

\* Mutant: the UPDATE names the first row instead of the new one.
create_user_UpdateFirst(us, first_name, last_name, face_encoding_json, qr_expires_at_iso) ==
    LET user_id == Len(us) + 1
        inserted == Append(us, [id |-> user_id,
                                name |-> FullName(Strip(first_name), Strip(last_name)),
                                qr_code |-> TMP(user_id),
                                face_encoding |-> face_encoding_json,
                                first_name |-> Some(Strip(first_name)),
                                last_name |-> Some(Strip(last_name)),
                                qr_expires_at |-> qr_expires_at_iso])
    IN  [raised |-> FALSE,
         users |-> [inserted EXCEPT ![1].qr_code = EMP(user_id)],
         ret |-> Some(<<user_id, EMP(user_id)>>)]

\* Mutant: the UPDATE that finalizes the token is missing.
create_user_KeepsPlaceholder(us, first_name, last_name, face_encoding_json, qr_expires_at_iso) ==
    [raised |-> FALSE,
     users |-> Append(us, [id |-> Len(us) + 1,
                           name |-> FullName(Strip(first_name), Strip(last_name)),
                           qr_code |-> TMP(Len(us) + 1),
                           face_encoding |-> face_encoding_json,
                           first_name |-> Some(Strip(first_name)),
                           last_name |-> Some(Strip(last_name)),
                           qr_expires_at |-> qr_expires_at_iso]),
     ret |-> Some(<<Len(us) + 1, EMP(Len(us) + 1)>>)]

\* database.create_user (lines 133-174): INSERT with a placeholder token,
\* UPDATE to EMP:{id}, commit.  The UPDATE raises when the UNIQUE
\* constraint finds the token taken; nothing is committed then.
\* (The created_at and updated_at columns are not modelled.)
create_user(us, first_name, last_name, face_encoding_json, qr_expires_at_iso) ==
    LET first == Strip(first_name)
        last == Strip(last_name)
        user_id == Len(us) + 1
        tmp_qr == TMP(user_id)
        inserted == Append(us, [id |-> user_id,
                                name |-> FullName(first, last),
                                qr_code |-> tmp_qr,
                                face_encoding |-> face_encoding_json,
                                first_name |-> Some(first),
                                last_name |-> Some(last),
                                qr_expires_at |-> qr_expires_at_iso])
        final_qr == EMP(user_id)
    IN  IF TokenTaken(inserted, final_qr, user_id)
        THEN [raised |-> TRUE, users |-> us, ret |-> None]
        ELSE [raised |-> FALSE,
              users |-> [inserted EXCEPT ![user_id].qr_code = final_qr],
              ret |-> Some(<<user_id, final_qr>>)]

\* The POST branch of app.admin_employees (lines 326-355).
admin_employees(us, form) ==
    LET qr_expires_at_iso == IF IsSome(form.qr_expires_at)
                             THEN Some(_date_to_iso_end(Get(form.qr_expires_at)))
                             ELSE None
        face_b64 == Strip(form.face_image_b64)
        encoding == IF face_b64 # <<>>
                    THEN extract_face_encoding_from_base64_image(face_b64)
                    ELSE IF form.face_image = None
                    THEN [error |-> Some("Dodaj obraz twarzy"), value |-> <<>>]
                    ELSE extract_face_encoding_from_image_bytes(Get(form.face_image))
    IN  IF IsSome(encoding.error)
        THEN [users |-> us, ret |-> None, flash |-> Get(encoding.error)]
        ELSE LET created == create_user(us, form.first_name, form.last_name,
                                        encoding.value, qr_expires_at_iso)
             IN  IF created.raised
                 THEN [users |-> us, ret |-> None,
                       flash |-> "UNIQUE constraint failed: users.qr_code"]
                 ELSE [users |-> created.users, ret |-> created.ret,
                       flash |-> "Dodano pracownika"]

\* One POST /admin/employees by a logged-in administrator.
Enroll(form) ==
    /\ Len(users) < MaxUsers
    /\ \E out \in {admin_employees(users, form)} :
           /\ users' = out.users
           /\ req' = [NoRequest EXCEPT !.op = "enroll", !.form = form,
                                       !.ret = out.ret, !.result = out.flash]
    /\ UNCHANGED <<events, clock, auditFailed, completed, scan, query, conc>>

\* face_utils.add_user_with_image (lines 91-115): a row with the token the
\* caller chose; the INSERT raises when the token is taken.
add_user_with_image(us, name, qr_code, image) ==
    IF FaceEncodings(image) = <<>> \/ TokenTaken(us, qr_code, 0)
    THEN [raised |-> TRUE, users |-> us, ret |-> None]
    ELSE [raised |-> FALSE,
          users |-> Append(us, [id |-> Len(us) + 1, name |-> name,
                                qr_code |-> qr_code,
                                face_encoding |-> json_dumps(FaceEncodings(image)[1]),
                                first_name |-> None, last_name |-> None,
                                qr_expires_at |-> None]),
          ret |-> Some(<<Len(us) + 1, qr_code>>)]

\* One run of the helper script (testuser.py).
AddUserWithImage(name, qr_code, image) ==
    /\ Len(users) < MaxUsers
    /\ \E out \in {add_user_with_image(users, name, qr_code, image)} :
           /\ users' = out.users
           /\ req' = [NoRequest EXCEPT !.op = "add_user", !.ret = out.ret,
                                       !.result = IF out.raised THEN "fault"
                                                  ELSE "added"]
    /\ UNCHANGED <<events, clock, auditFailed, completed, scan, query, conc>>

\* -------------------------------------------------------------- reports
\* ORDER BY e.timestamp DESC, e.id DESC
Before(a, b) ==
    \/ ~IsoLeq(a.timestamp, b.timestamp)
    \/ (a.timestamp = b.timestamp /\ a.id > b.id)

RECURSIVE InsertSorted(_, _)
InsertSorted(row, rows) ==
    IF rows = <<>> THEN <<row>>
    ELSE IF Before(row, Head(rows)) THEN <<row>> \o rows
    ELSE <<Head(rows)>> \o InsertSorted(row, Tail(rows))

RECURSIVE OrderRows(_)
OrderRows(rows) ==
    IF rows = <<>> THEN <<>> ELSE InsertSorted(Head(rows), OrderRows(Tail(rows)))

\* Mutant: the end bound is exclusive.
Selected_EndExclusive(e, start_iso, end_iso, status) ==
    /\ IsSome(start_iso) => IsoLeq(Get(start_iso), e.timestamp)
    /\ IsSome(end_iso) => (IsoLeq(e.timestamp, Get(end_iso)) /\ e.timestamp # Get(end_iso))
    /\ IsSome(status) => e.status = Get(status)

\* The WHERE clause list_events builds (lines 218-226): an absent or empty
\* bound adds no condition.
Selected(e, start_iso, end_iso, status) ==
    /\ IsSome(start_iso) => IsoLeq(Get(start_iso), e.timestamp)
    /\ IsSome(end_iso) => IsoLeq(e.timestamp, Get(end_iso))
    /\ IsSome(status) => e.status = Get(status)

\* LEFT JOIN users u ON u.id = e.user_id: the name, or NULL.
UserName(us, user_id) ==
    IF IsSome(user_id) /\ Get(user_id) \in 1..Len(us)
    THEN Some(us[Get(user_id)].name) ELSE None

\* database.list_events (lines 200-235).
list_events(evs, us, start_iso, end_iso, status) ==
    LET joined == [i \in 1..Len(evs) |->
                      [event |-> evs[i], user_name |-> UserName(us, evs[i].user_id),
                       id |-> evs[i].id, timestamp |-> evs[i].timestamp]]
    IN  OrderRows(SelectSeq(joined,
                            LAMBDA r : Selected(r.event, start_iso, end_iso, status)))

NoQuery == [op |-> "none", start |-> None, end |-> None, status |-> None,
            rows |-> <<>>]

\* One report query: list_events as app.admin_reports calls it, with any
\* bounds and status filter.
ListEvents(start_iso, end_iso, status) ==
    /\ query.op = "none"
    /\ query' = [op |-> "list", start |-> start_iso, end |-> end_iso,
                 status |-> status,
                 rows |-> list_events(events, users, start_iso, end_iso, status)]
    /\ UNCHANGED <<users, events, clock, req, auditFailed, completed, scan, conc>>

\* -------------------------------------------------------------- inputs
\* Frame sequences of the requests: none, three frames without a blink, a
\* blink and then the enrolled face, a blink and then a face at exactly the
\* match threshold, a blink and then a last frame that is not base64.
Still == <<<<"open_a">>, <<"open_a">>, <<"open_a">>>>
LiveA == <<<<"shut_a">>, <<"shut_a">>, <<Hdr, "open_a">>>>
LiveRim == <<<<"shut_a">>, <<"shut_a">>, <<"rim_a">>>>
LiveBad == <<<<"shut_a">>, <<"shut_a">>, <<"open_a">>, <<"bad">>>>

Padded1 == <<" ", "EMP:", "1", " ">>

\* The requests: a blank and a missing token, no frames, no blink, live
\* requests for the first and the second identity, and a request with a
\* blank token whose direction is a number.
VerifyRequests ==
    {[qr_code |-> Some(<<" ">>), frames |-> LiveA, direction |-> Some("OUT")],
     [qr_code |-> None, frames |-> Still, direction |-> Some("")],
     [qr_code |-> Some(Padded1), frames |-> <<>>, direction |-> Some("up")],
     [qr_code |-> Some(Padded1), frames |-> Still, direction |-> None],
     [qr_code |-> Some(Padded1), frames |-> LiveA, direction |-> Some("out")],
     [qr_code |-> Some(Padded1), frames |-> LiveRim, direction |-> None],
     [qr_code |-> Some(Padded1), frames |-> LiveBad, direction |-> None],
     [qr_code |-> Some(EMP(2)), frames |-> LiveA, direction |-> Some("in")],
     [qr_code |-> Some(<<" ">>), frames |-> Still, direction |-> Some(JsonNumber)]}

\* Enrollment forms: with and without names, expiry date and image.
EnrollForms ==
    {[first_name |-> <<>>, last_name |-> <<>>, qr_expires_at |-> None,
      face_image_b64 |-> <<" ", Hdr, "open_a">>, face_image |-> None],
     [first_name |-> <<" ", "a">>, last_name |-> <<"b">>, qr_expires_at |-> Some(0),
      face_image_b64 |-> <<>>, face_image |-> Some("open_a")],
     [first_name |-> <<"a">>, last_name |-> <<>>, qr_expires_at |-> Some(BadDate),
      face_image_b64 |-> <<"open_a">>, face_image |-> Some("junk")],
     [first_name |-> <<"a">>, last_name |-> <<>>, qr_expires_at |-> None,
      face_image_b64 |-> <<>>, face_image |-> None],
     [first_name |-> <<"a">>, last_name |-> <<>>, qr_expires_at |-> None,
      face_image_b64 |-> <<"blank">>, face_image |-> None],
     [first_name |-> <<"a">>, last_name |-> <<>>, qr_expires_at |-> None,
      face_image_b64 |-> <<"bad">>, face_image |-> None],
     [first_name |-> <<"a">>, last_name |-> <<>>, qr_expires_at |-> None,
      face_image_b64 |-> <<>>, face_image |-> Some("junk")]}

\* -------------------------------------------------------------- workers
\* Requests served at the same time, each by its own worker.  The store is
\* the only thing they share: users and events hold what is committed, every
\* worker has its own connection and its uncommitted change (pending), and
\* conc.lock is the worker that holds SQLite's write lock (0: nobody).
Procs == 1..MaxProcs

ProcIdle ==
    [op |-> "none", pc |-> "idle", conn |-> FALSE, pending |-> <<>>,
     code |-> "", result |-> "", ret |-> None, event_id |-> 0, seen |-> 0]

ConcIdle == [proc |-> [p \in Procs |-> ProcIdle], lock |-> 0]

\* The enrollment form and the verify request the workers are given.
ConcForm ==
    [first_name |-> <<"a">>, last_name |-> <<"b">>, qr_expires_at |-> None,
     face_image_b64 |-> <<Hdr, "open_a">>, face_image |-> None]

ConcRequest == [qr_code |-> Some(Padded1), frames |-> LiveA, direction |-> Some("out")]

\* Mutant: a write does not wait for the write lock.
CanWrite_NoLock(c, p) == TRUE

\* cur.execute of an INSERT (database.py lines 153 and 189): SQLite lets one
\* connection write at a time, the others wait until it commits or closes.
CanWrite(c, p) == c.lock = 0

\* COMMIT of an inserted event: the row is stored under its rowid.
CommitRow(evs, row) ==
    IF row.id <= Len(evs) THEN [evs EXCEPT ![row.id] = row] ELSE Append(evs, row)

\* A request reaches a worker: POST /admin/employees or POST /verify.
Start(p, op) ==
    /\ conc.proc[p].pc = "idle"
    /\ op = "enroll" => Len(users) < MaxUsers
    /\ conc' = [conc EXCEPT !.proc[p] = [ProcIdle EXCEPT !.op = op, !.pc = "start"]]
    /\ UNCHANGED <<users, events, clock, req, auditFailed, completed, scan, query>>

\* The part of the handler before its write.  verify (lines 114-260) reads
\* the identity through get_user_by_qr, which opens and closes a connection
\* of its own, and decides the event to write (seen notes how long the
\* ledger was then); admin_employees (lines 327-342) extracts the face
\* encoding.
Decide(p) ==
    /\ conc.proc[p].pc = "start"
    /\ IF conc.proc[p].op = "verify"
       THEN \E out \in {verify(users, <<>>, clock, clock, ConcRequest, TRUE, TRUE)} :
                conc' = [conc EXCEPT !.proc[p].pc = IF out.events = <<>> THEN "done"
                                                    ELSE "decided",
                                     !.proc[p].pending = out.events,
                                     !.proc[p].seen = Len(events),
                                     !.proc[p].code = out.code,
                                     !.proc[p].result = out.result]
       ELSE \E enc \in {extract_face_encoding_from_base64_image(
                            Strip(ConcForm.face_image_b64))} :
                conc' = [conc EXCEPT !.proc[p].pc = IF IsSome(enc.error) THEN "done"
                                                    ELSE "decided",
                                     !.proc[p].pending = <<enc.value>>,
                                     !.proc[p].result = IF IsSome(enc.error)
                                                        THEN Get(enc.error) ELSE ""]
    /\ UNCHANGED <<users, events, clock, req, auditFailed, completed, scan, query>>

\* database.get_connection, first line of create_user and insert_event.
Open(p) ==
    /\ conc.proc[p].pc = "decided"
    /\ conc' = [conc EXCEPT !.proc[p].pc = "open", !.proc[p].conn = TRUE]
    /\ UNCHANGED <<users, events, clock, req, auditFailed, completed, scan, query>>

\* The INSERT of insert_event (line 189) or of create_user (line 153); it
\* starts the transaction.  AUTOINCREMENT gives the id after the last
\* committed one.  For create_user the transaction's further course on the
\* table it sees is worked out here and played in Update and Commit.
Insert(p) ==
    /\ conc.proc[p].pc = "open"
    /\ CanWrite(conc, p)
    /\ IF conc.proc[p].op = "verify"
       THEN conc' = [conc EXCEPT !.lock = p, !.proc[p].pc = "inserted",
                                 !.proc[p].pending =
                                     <<[conc.proc[p].pending[1]
                                           EXCEPT !.id = Len(events) + 1]>>,
                                 !.proc[p].event_id = Len(events) + 1]
       ELSE conc' = [conc EXCEPT !.lock = p, !.proc[p].pc = "inserted",
                                 !.proc[p].pending =
                                     <<create_user(users, ConcForm.first_name,
                                                   ConcForm.last_name,
                                                   conc.proc[p].pending[1], None)>>]
    /\ UNCHANGED <<users, events, clock, req, auditFailed, completed, scan, query>>

\* create_user line 171: the UPDATE to EMP:{id}.  When the UNIQUE constraint
\* rejects it, the IntegrityError leaves create_user past conn.close():
\* admin_employees catches it (line 354) with the connection still open and
\* the transaction still holding the write lock.
Update(p) ==
    /\ conc.proc[p].op = "enroll"
    /\ conc.proc[p].pc = "inserted"
    /\ IF conc.proc[p].pending[1].raised
       THEN conc' = [conc EXCEPT !.proc[p].pc = "failed",
                                 !.proc[p].result =
                                     "UNIQUE constraint failed: users.qr_code"]
       ELSE conc' = [conc EXCEPT !.proc[p].pc = "updated"]
    /\ UNCHANGED <<users, events, clock, req, auditFailed, completed, scan, query>>

\* conn.commit() (lines 172, 196): the change becomes visible and the write
\* lock is released.
Commit(p) ==
    /\ \/ conc.proc[p].op = "verify" /\ conc.proc[p].pc = "inserted"
       \/ conc.proc[p].op = "enroll" /\ conc.proc[p].pc = "updated"
    /\ conc' = [conc EXCEPT !.lock = 0, !.proc[p].pc = "committed"]
    /\ IF conc.proc[p].op = "verify"
       THEN /\ events' = CommitRow(events, conc.proc[p].pending[1])
            /\ users' = users
       ELSE /\ users' = conc.proc[p].pending[1].users
            /\ events' = events
    /\ UNCHANGED <<clock, req, auditFailed, completed, scan, query>>

\* conn.close() and the return (lines 173-174, 197).
Close(p) ==
    /\ conc.proc[p].pc = "committed"
    /\ conc' = [conc EXCEPT !.proc[p].pc = "done", !.proc[p].conn = FALSE,
                            !.proc[p].ret = IF conc.proc[p].op = "enroll"
                                            THEN conc.proc[p].pending[1].ret
                                            ELSE None,
                            !.proc[p].result = IF conc.proc[p].op = "enroll"
                                               THEN "Dodano pracownika"
                                               ELSE @]
    /\ UNCHANGED <<users, events, clock, req, auditFailed, completed, scan, query>>

\* The interpreter destroys the connection object a failed create_user left
\* behind: SQLite rolls the transaction back, which leaves the table as the
\* failed call left it committed, and the lock is free again.
Finalize(p) ==
    /\ conc.proc[p].pc = "failed"
    /\ conc.proc[p].conn
    /\ conc' = [conc EXCEPT !.lock = IF @ = p THEN 0 ELSE @,
                            !.proc[p].conn = FALSE, !.proc[p].pending = <<>>]
    /\ users' = conc.proc[p].pending[1].users
    /\ UNCHANGED <<events, clock, req, auditFailed, completed, scan, query>>

\* The helper script runs while the workers serve requests; its INSERT
\* waits for the write lock like any other.
AddUserAlongside ==
    /\ conc.lock = 0
    /\ AddUserWithImage(<<"username">>, EMP(2), "open_a")

\* -------------------------------------------------------------- behaviours
Init ==
    /\ users = <<>>
    /\ events = <<>>
    /\ clock = 0
    /\ req = NoRequest
    /\ auditFailed = FALSE
    /\ completed = 0
    /\ scan = ScanIdle
    /\ query = NoQuery
    /\ conc = ConcIdle

Next ==
    \/ \E form \in EnrollForms : Enroll(form)
    \/ AddUserWithImage(<<"username">>, EMP(2), "open_a")
    \/ \E data \in VerifyRequests, dt \in 0..MaxClock, w1, w2 \in BOOLEAN :
           Verify(data, dt, w1, w2)
    \/ Tick

Spec == Init /\ [][Next]_vars

\* The liveness scan on every frame sequence up to MaxFrames frames.
InitLive ==
    /\ users = <<>>
    /\ events = <<>>
    /\ clock = 0
    /\ req = NoRequest
    /\ auditFailed = FALSE
    /\ completed = 0
    /\ scan \in {[ScanIdle EXCEPT !.pc = "call", !.frames = f] :
                    f \in SeqsUpTo(LiveFrames, MaxFrames)}
    /\ query = NoQuery
    /\ conc = ConcIdle

NextLive == LiveDecode \/ LiveFrame \/ LiveReturn

SpecLive == InitLive /\ [][NextLive]_vars

\* Report queries on every ledger of up to MaxLedger events.  Timestamps
\* need not grow with the ids: verify reads the clock before it inserts.
Stamps == {<<0, 0>>, <<0, LastSecond>>, <<1, 0>>}

LedgerRow(i, ts, status) ==
    [id |-> i, user_id |-> None, timestamp |-> ts, direction |-> "IN",
     status |-> status,
     error_code |-> IF status = "OK" THEN None ELSE Some("NO_BLINK"),
     qr_code |-> Some(EMP(1)), attempt_image_b64 |-> None]

Ledgers ==
    UNION {{[i \in 1..n |-> LedgerRow(i, f[i][1], f[i][2])] :
               f \in [1..n -> Stamps \X {"OK", "FAIL"}]} : n \in 0..MaxLedger}

InitList ==
    /\ users = <<>>
    /\ events \in Ledgers
    /\ clock = 0
    /\ req = NoRequest
    /\ auditFailed = FALSE
    /\ completed = 0
    /\ scan = ScanIdle
    /\ query = NoQuery
    /\ conc = ConcIdle

NextList ==
    \E start_iso, end_iso \in {None} \cup {Some(ts) : ts \in Stamps},
       status \in {None, Some("OK"), Some("FAIL")} :
        ListEvents(start_iso, end_iso, status)

SpecList == InitList /\ [][NextList]_vars

\* Enrollments and verify requests served concurrently.
NextConc ==
    \/ \E p \in Procs, op \in {"enroll", "verify"} : Start(p, op)
    \/ \E p \in Procs : Decide(p)
    \/ \E p \in Procs : Open(p)
    \/ \E p \in Procs : Insert(p)
    \/ \E p \in Procs : Update(p)
    \/ \E p \in Procs : Commit(p)
    \/ \E p \in Procs : Close(p)
    \/ \E p \in Procs : Finalize(p)
    \/ AddUserAlongside

\* The workers start on an empty store or on the store after a first
\* enrollment.
InitConc ==
    /\ users \in {<<>>, admin_employees(<<>>, ConcForm).users}
    /\ events = <<>>
    /\ clock = 0
    /\ req = NoRequest
    /\ auditFailed = FALSE
    /\ completed = 0
    /\ scan = ScanIdle
    /\ query = NoQuery
    /\ conc = ConcIdle

SpecConc == InitConc /\ [][NextConc]_vars

\* Enrollments, verify requests and report queries in any order: an
\* enrollment that succeeds and one that fails, requests that end at the
\* validation, the liveness and the later stages, with and without a
\* failing audit write.
LedgerForms == {form \in EnrollForms : form.first_name = <<>> \/ form.face_image_b64 = <<"blank">>}

LedgerRequests == {data \in VerifyRequests : data.direction \in {None, Some("up")}}

NextLedger ==
    \/ \E form \in LedgerForms : Enroll(form)
    \/ \E data \in LedgerRequests, w1 \in BOOLEAN : Verify(data, 0, w1, w1)
    \/ Tick
    \/ \E status \in {None, Some("FAIL")} : ListEvents(None, None, status)

SpecLedger == Init /\ [][NextLedger]_vars

\* ============================================================== claims
\* What the finished verify request in req was given and what it met.
ReqValid == req.qr_code # <<>> /\ req.data.frames # <<>>
ReqLive == ReqValid /\ is_live_from_base64_frames(req.data.frames)
ReqUser == get_user_by_qr(users, req.qr_code)
ReqResolved == ReqLive /\ IsSome(ReqUser)
ReqExpiry == Get(ReqUser).qr_expires_at
ReqHasExpiry == ReqResolved /\ IsSome(ReqExpiry) /\ IsoParses(Get(ReqExpiry))
ReqPastExpiry == ReqHasExpiry /\ req.T > fromisoformat(Get(ReqExpiry))
ReqMatch ==
    compare_face_with_user(Get(ReqUser), req.data.frames[Len(req.data.frames)])
\* The request's own insert_event committed.
ReqWrote == req.op = "verify" /\ req.code # "RAISED" /\ req.failed = <<>>

StageOrder == <<"validate", "liveness", "resolve", "expiry", "match">>

IsPrefix(s, t) == Len(s) <= Len(t) /\ s = SubSeq(t, 1, Len(s))

InSeq(x, s) == \E i \in 1..Len(s) : s[i] = x

\* C1: as long as no audit write has failed, the ledger holds exactly one
\* event per finished verify request: N requests, N events.
C1_OneEventPerVerify == ~auditFailed => Len(events) = completed

\* C2: a verify request runs validation, liveness, identity resolution,
\* expiry check and face match in that order, its outcome is the code of the
\* first stage that fails, and no stage runs after a failed one: no lookup
\* after a validation or liveness failure, no face match for an unknown or
\* an expired token.  (A matcher that raises is left aside here.)
C2_FirstFailureDecides ==
    (req.op = "verify" /\ req.code # "RAISED") =>
        /\ IsPrefix(req.calls, StageOrder)
        /\ req.code = (IF ~ReqValid THEN "MISSING_DATA"
                       ELSE IF ~ReqLive THEN "NO_BLINK"
                       ELSE IF ~ReqResolved THEN "UNKNOWN_QR"
                       ELSE IF ReqPastExpiry THEN "QR_EXPIRED"
                       ELSE IF ~ReqMatch.value THEN "FACE_MISMATCH"
                       ELSE "OK")
        /\ ~ReqLive => ~InSeq("resolve", req.calls)
        /\ (~ReqResolved \/ ReqPastExpiry) => ~InSeq("match", req.calls)

\* C3: for a request that passed validation and liveness and resolved to an
\* identity with a parsable expiry E, verify ends in QR_EXPIRED exactly when
\* the instant T of the check is after E; at T = E it goes on to the match.
C3_ExpiredIffAfter ==
    (req.op = "verify" /\ ReqHasExpiry) =>
        /\ req.code = "QR_EXPIRED" <=> req.T > fromisoformat(Get(ReqExpiry))
        /\ req.T = fromisoformat(Get(ReqExpiry)) => InSeq("match", req.calls)

\* C4: when an audit write of a verify request raises, the caller still
\* gets the status tag of the branch whose write raised, never a fault and
\* never another decision.
C4_WriteFailureSuppressed ==
    (req.op = "verify" /\ req.failed # <<>>) =>
        req.result = StatusTag(req.failed[1])

\* C5: for a frame sequence of fewer than 3 frames the liveness scan never
\* calls the landmark provider and returns false.
C5_ShortSequenceNotLive ==
    Len(scan.frames) < 3 =>
        /\ scan.st.calls = 0
        /\ scan.pc = "done" => scan.result = FALSE

\* Two frames with closed eyes, scanned to the end.
C5_Witness ==
    /\ scan.pc = "done"
    /\ scan.frames = <<<<"shut_a">>, <<"shut_a">>>>

\* A supplied frame yields landmarks with an averaged EAR below 0.21.
LowEar(frame) ==
    /\ IsSome(_decode_base64_image(frame))
    /\ HasLandmarks(Get(_decode_base64_image(frame)))
    /\ Ear(Get(_decode_base64_image(frame))) < 21

\* C6: for 3 or more supplied frames the scan returns true exactly when two
\* frames that are adjacent in the supplied order both have an EAR below
\* 0.21; a frame without landmarks or an unusable image in between breaks
\* the run.
C6_LiveIffAdjacentLowPair ==
    (scan.pc = "done" /\ Len(scan.frames) >= 3) =>
        (scan.result <=>
            \E i \in 1..(Len(scan.frames) - 1) :
                LowEar(scan.frames[i]) /\ LowEar(scan.frames[i + 1]))

\* The image an enrollment form carries: the camera capture if there is
\* one, otherwise the uploaded file.
FormImage(form) ==
    IF Strip(form.face_image_b64) # <<>>
    THEN Body(Strip(form.face_image_b64)) ELSE Get(form.face_image)

\* C7: after a successful enrollment the returned token is EMP:{id} of the
\* new identity, no other identity has it, and looking the token up gives
\* the record with that id and the enrolled display name, embedding and
\* expiry.
C7_EnrollmentTokenResolves ==
    (req.op = "enroll" /\ IsSome(req.ret)) =>
        LET user_id == Get(req.ret)[1]
            qr_code == Get(req.ret)[2]
            found == get_user_by_qr(users, qr_code)
        IN  /\ qr_code = <<"EMP:", ToString(user_id)>>
            /\ \A i \in 1..Len(users) :
                   users[i].id # user_id => users[i].qr_code # qr_code
            /\ IsSome(found)
            /\ Get(found).id = user_id
            /\ Get(found).name = FullName(Strip(req.form.first_name),
                                          Strip(req.form.last_name))
            /\ Get(found).face_encoding = json_dumps(Embedding(FormImage(req.form)))
            /\ Get(found).qr_expires_at =
                   (IF IsSome(req.form.qr_expires_at)
                    THEN Some(<<Get(req.form.qr_expires_at), LastSecond>>)
                    ELSE None)

\* The second identity has just been enrolled, with names and an expiry.
C7_Witness ==
    /\ req.op = "enroll"
    /\ req.ret = Some(<<2, <<"EMP:", "2">>>>)
    /\ Len(users) = 2
    /\ req.form.first_name # <<>>
    /\ IsSome(req.form.qr_expires_at)

\* The events a query with these bounds and status filter has to return.
Wanted(e) ==
    /\ IsSome(query.start) => IsoLeq(Get(query.start), e.timestamp)
    /\ IsSome(query.end) => IsoLeq(e.timestamp, Get(query.end))
    /\ IsSome(query.status) => e.status = Get(query.status)

\* C8: list_events returns exactly the events with start <= timestamp <= end
\* and the asked status, each once, newest first and, among equal
\* timestamps, larger id first.
C8_ListEventsExactAndOrdered ==
    query.op = "list" =>
        /\ \A i \in 1..Len(events) :
               Wanted(events[i]) <=>
                   \E k \in 1..Len(query.rows) : query.rows[k].event = events[i]
        /\ \A k \in 1..Len(query.rows) :
               \E i \in 1..Len(events) : query.rows[k].event = events[i]
        /\ \A k, l \in 1..Len(query.rows) :
               k < l =>
                   LET a == query.rows[k].event
                       b == query.rows[l].event
                   IN  \/ (IsoLeq(b.timestamp, a.timestamp) /\ a.timestamp # b.timestamp)
                       \/ (a.timestamp = b.timestamp /\ a.id > b.id)

\* A query with both bounds that leaves an event out and returns two events
\* of one timestamp.
C8_Witness ==
    /\ query.op = "list"
    /\ IsSome(query.start) /\ IsSome(query.end)
    /\ Len(query.rows) = 2
    /\ Len(events) = 3
    /\ query.rows[1].event.timestamp = query.rows[2].event.timestamp
    /\ query.rows[1].event.timestamp = Get(query.end)

FailureCodes == {"NO_BLINK", "UNKNOWN_QR", "QR_EXPIRED", "FACE_MISMATCH"}

\* C9: an OK event has no evidence image; an event with code NO_BLINK,
\* UNKNOWN_QR, QR_EXPIRED or FACE_MISMATCH has one, and the event a request
\* has just written carries the last frame that request submitted.
C9_EvidenceOnFailureOnly ==
    /\ \A i \in 1..Len(events) :
           /\ events[i].status = "OK" => events[i].attempt_image_b64 = None
           /\ events[i].error_code \in {Some(c) : c \in FailureCodes} =>
                  IsSome(events[i].attempt_image_b64)
    /\ (ReqWrote /\ req.code \in FailureCodes) =>
           events[Len(events)].attempt_image_b64
               = Some(req.data.frames[Len(req.data.frames)])

\* The ledger holds an OK event and then the FACE_MISMATCH event of the
\* request that has just finished.
C9_Witness ==
    /\ Len(events) = 2
    /\ events[1].status = "OK"
    /\ ReqWrote /\ req.code = "FACE_MISMATCH"

TagOf(e) ==
    CASE e.status = "OK" -> "success"
      [] e.error_code = Some("NO_BLINK") -> "spoofing"
      [] e.error_code \in {Some("UNKNOWN_QR"), Some("FACE_MISMATCH")} -> "fraud"
      [] e.error_code = Some("QR_EXPIRED") -> "expired"
      [] e.error_code = Some("MISSING_DATA") -> "error"
      [] OTHER -> "none"

\* C11: every verify request, whatever its token, frames and direction,
\* returns one result whose status tag is success, spoofing, fraud, expired
\* or error, never an unhandled fault, and the tag is the one that goes with
\* the event the request wrote.
C11_TaggedResultNoFault ==
    req.op = "verify" =>
        /\ req.result \in {"success", "spoofing", "fraud", "expired", "error"}
        /\ ReqWrote => req.result = TagOf(events[Len(events)])

\* C12 as stated: every event's direction is IN, OUT or UNKNOWN, and the
\* event a request wrote has the request's direction when that is IN or OUT
\* and UNKNOWN for every other value.
C12_DirectionAsStated ==
    /\ \A i \in 1..Len(events) : events[i].direction \in {"IN", "OUT", "UNKNOWN"}
    /\ ReqWrote =>
           events[Len(events)].direction
               = (IF req.data.direction \in {Some("IN"), Some("OUT")}
                  THEN Get(req.data.direction) ELSE "UNKNOWN")

\* C12 amended: every event's direction is IN, OUT or UNKNOWN; the event a
\* request wrote, at whichever stage, has IN when the request has no or an
\* empty direction, the upper-cased direction when that is IN or OUT, and
\* UNKNOWN for every other text.
C12_DirectionNormalised ==
    /\ \A i \in 1..Len(events) : events[i].direction \in {"IN", "OUT", "UNKNOWN"}
    /\ ReqWrote =>
           events[Len(events)].direction
               = (IF req.data.direction \in {None, Some(""), Some("IN"), Some("in")}
                  THEN "IN"
                  ELSE IF req.data.direction \in {Some("OUT"), Some("out")}
                  THEN "OUT"
                  ELSE "UNKNOWN")

\* An OUT event, then the event of a request with an unrecognized
\* direction that ended at the validation stage.
C12_Witness ==
    /\ Len(events) = 2
    /\ events[1].direction = "OUT"
    /\ ReqWrote /\ req.data.direction = Some("up") /\ req.code = "MISSING_DATA"
    /\ events[2].direction = "UNKNOWN"

\* C13: the ledger is append-only: every step of verify, enrollment and
\* query leaves the events written so far in place with identical fields
\* (the ledger before a step is a prefix of the ledger after it), and event
\* ids strictly increase in insertion order.
C13_LedgerAppendOnly ==
    /\ [](\A i, j \in 1..Len(events) : i < j => events[i].id < events[j].id)
    /\ [][IsPrefix(events, events')]_vars

\* Two events were written, an identity was enrolled and a report was
\* queried.
C13_Witness ==
    /\ Len(events) = 2
    /\ events[1].qr_code = events[2].qr_code
    /\ Len(users) >= 1
    /\ query.op = "list"

\* The identity a finished verify request resolved has an expiry text
\* that does not parse.
ReqBadExpiry == ReqResolved /\ IsSome(ReqExpiry) /\ ~IsoParses(Get(ReqExpiry))

\* C16: when the stored expiry of the resolved identity does not parse,
\* verify does not end in QR_EXPIRED and the parse error is no failure: all
\* five stages run and the outcome is the face match's, as for an identity
\* without expiry.
C16_UnparsableExpiryFailsOpen ==
    (req.op = "verify" /\ ReqBadExpiry) =>
        /\ req.code # "QR_EXPIRED"
        /\ req.calls = StageOrder
        /\ req.code = (IF ReqMatch.raised THEN "RAISED"
                       ELSE IF ~ReqMatch.value THEN "FACE_MISMATCH" ELSE "OK")
        /\ (req.failed = <<>> /\ ~ReqMatch.raised) =>
               req.result = StatusTag(req.code)

\* A request for an identity with an unparsable expiry ended in OK and
\* wrote its event.
C16_Witness ==
    /\ req.op = "verify" /\ ReqBadExpiry
    /\ ReqWrote /\ req.code = "OK"
    /\ events[Len(events)].user_id = Some(Get(ReqUser).id)

\* The form carries no image, an image that does not decode, or an image
\* without a face (the camera capture is looked at first).
NoUsableFace(form) ==
    IF Strip(form.face_image_b64) # <<>>
    THEN Body(Strip(form.face_image_b64)) \notin FaceBodies
    ELSE form.face_image = None \/ Get(form.face_image) \notin FaceBodies

EnrollErrors ==
    {"Dodaj obraz twarzy", "Nie udalo sie zdekodowac obrazu.",
     "Nie wykryto twarzy na obrazie.", "Incorrect padding"}

\* C17: an enrollment without an image, with an image that does not decode
\* or with an image without a face ends with an error message and returns
\* no identity, and the step leaves the identity store as it was.
C17_FailedEnrollmentLeavesStore ==
    [][(req'.op = "enroll" /\ NoUsableFace(req'.form)) =>
           /\ users' = users
           /\ req'.ret = None
           /\ req'.result \in EnrollErrors]_vars

\* An enrollment with an image without a face was refused on a store that
\* holds one identity.
C17_Witness ==
    /\ req.op = "enroll"
    /\ req.form.face_image_b64 = <<"blank">>
    /\ req.result = "Nie wykryto twarzy na obrazie."
    /\ Len(users) = 1

\* The image as the scan is said to see it: a provider error counts as no
\* landmarks.
AsNoLandmarks(imgs) ==
    [i \in 1..Len(imgs) |-> IF ProviderRaises(imgs[i]) THEN "blank" ELSE imgs[i]]

\* C18: a provider error on a frame counts as a frame without landmarks:
\* the call never ends with an exception, and it returns what the scan
\* gives with the run counter reset at that frame.
C18_ProviderErrorIsNoLandmarks ==
    scan.pc \in {"done", "raised"} =>
        /\ scan.pc = "done"
        /\ scan.result = (/\ Len(scan.decoded) >= 3
                          /\ ScanAll(ScanStart, AsNoLandmarks(scan.decoded)).blink_detected)

\* C19: the face matcher never raises: a request that passed liveness,
\* resolution and expiry and whose last frame does not decode or shows no
\* face ends in FACE_MISMATCH, with one event that refers to the resolved
\* identity (the event's write succeeding).
C19_MatcherNeverRaises ==
    (/\ req.op = "verify" /\ ReqResolved /\ ~ReqPastExpiry
     /\ req.failed = <<>>
     /\ Body(req.data.frames[Len(req.data.frames)]) \notin FaceBodies) =>
        /\ req.code = "FACE_MISMATCH"
        /\ Len(events) > 0
        /\ events[Len(events)].error_code = Some("FACE_MISMATCH")
        /\ events[Len(events)].user_id = Some(Get(ReqUser).id)

\* The workers that serve an enrollment, a verify request.
Enrolling == {p \in Procs : conc.proc[p].op = "enroll"}
Verifying == {p \in Procs : conc.proc[p].op = "verify"}

\* C14: under any interleaving of enrollments no two identities in the
\* store share a token or an id, every finished enrollment got its own id
\* and the token EMP:{id}, and no enrollment fails on a token collision.
C14_ConcurrentEnrollments ==
    /\ \A i, j \in 1..Len(users) :
           i # j => (users[i].qr_code # users[j].qr_code /\ users[i].id # users[j].id)
    /\ \A p \in Enrolling :
           /\ conc.proc[p].pc # "failed"
           /\ conc.proc[p].pc = "done" =>
                  /\ IsSome(conc.proc[p].ret)
                  /\ Get(conc.proc[p].ret)[2]
                         = <<"EMP:", ToString(Get(conc.proc[p].ret)[1])>>
                  /\ \A q \in Enrolling \ {p} :
                         conc.proc[q].pc = "done" => conc.proc[q].ret # conc.proc[p].ret

\* The verify workers whose event is committed.
Audited == {p \in Verifying : conc.proc[p].pc \in {"committed", "done"}}

C20_ConnectionReleased ==
    \A p \in Procs :
        conc.proc[p].pc \in {"done", "failed"} => ~conc.proc[p].conn

\* C21: verify returns success, and the event it writes is an OK event,
\* only if every check of that request passed: token and frames present,
\* liveness true, the token resolved, the identity not past a valid expiry
\* at the check, the last frame matching; also when store writes fail.
C21_SuccessOnlyIfAllPassed ==
    (req.op = "verify" /\ (req.result = "success" \/ req.code = "OK")) =>
        /\ ReqValid
        /\ ReqLive
        /\ ReqResolved
        /\ ~ReqPastExpiry
        /\ ~ReqMatch.raised /\ ReqMatch.value

\* The scan that returns at the first moment the run counter reaches 2, on
\* the decoded frames: its verdict, or "raised" when the provider raises on
\* a frame it gets to.
RECURSIVE ScanEarly(_, _)
ScanEarly(consec_below, imgs) ==
    IF imgs = <<>> THEN "false"
    ELSE IF ProviderRaises(Head(imgs)) THEN "raised"
    ELSE IF HasLandmarks(Head(imgs)) /\ Ear(Head(imgs)) < 21
    THEN IF consec_below + 1 >= 2 THEN "true"
         ELSE ScanEarly(consec_below + 1, Tail(imgs))
    ELSE ScanEarly(0, Tail(imgs))

\* C22: for every frame sequence the scan of the code, which records the
\* blink and goes on to the last frame, ends as the scan that returns true
\* at the first blink: the same verdict, and no frame after the blink
\* changes it.
C22_DeferredEqualsEarly ==
    scan.pc \in {"done", "raised"} =>
        (IF scan.pc = "raised" THEN "raised"
         ELSE IF scan.result THEN "true" ELSE "false")
            = (IF Len(DecodeFrames(scan.frames)) < 3 THEN "false"
               ELSE ScanEarly(0, DecodeFrames(scan.frames)))

\* C23: verify ends in MISSING_DATA exactly when the trimmed token or the
\* frame sequence is empty; then only the validation ran (no liveness scan,
\* no lookup, no face match) and the event written has no identity.
C23_MissingDataIffEmpty ==
    req.op = "verify" =>
        /\ req.code = "MISSING_DATA"
               <=> (Strip(IF IsSome(req.data.qr_code) THEN Get(req.data.qr_code)
                          ELSE <<>>) = <<>>
                    \/ req.data.frames = <<>>)
        /\ req.code = "MISSING_DATA" =>
               /\ req.calls = <<"validate">>
               /\ ReqWrote =>
                      /\ events[Len(events)].error_code = Some("MISSING_DATA")
                      /\ events[Len(events)].user_id = None

\* C24: a step that serves a verify request leaves the identity store as it
\* is, a step that changes the identity store leaves the ledger as it is,
\* and no step changes or removes an identity record that exists: the store
\* before a step is a prefix of the store after it.
C24_VerifyAndEnrollFrames ==
    [][/\ (events' # events \/ completed' # completed) => users' = users
       /\ users' # users => events' = events
       /\ IsPrefix(users, users')]_vars

\* Two identities are enrolled and a verify request for the first one has
\* just written its event.
C24_Witness ==
    /\ Len(users) = 2
    /\ ReqWrote /\ req.code = "OK"
    /\ events[Len(events)].user_id = Some(1)

\* C25: in every committed state of the identity store, whatever the
\* interleaving and also after an enrollment that failed between its INSERT
\* and its UPDATE, no record has a TMP: token and every record create_user
\* made has the token EMP:{id}.
C25_PlaceholderNeverCommitted ==
    \A i \in 1..Len(users) :
        /\ users[i].qr_code[1] # "TMP:"
        /\ IsSome(users[i].first_name) =>
               users[i].qr_code = <<"EMP:", ToString(users[i].id)>>

\* An enrollment failed at its UPDATE and its connection is gone, while
\* another worker has served a verify request; the store holds the one
\* record it held before.
C25_Witness ==
    /\ \E p \in Enrolling : conc.proc[p].pc = "failed" /\ ~conc.proc[p].conn
    /\ \E q \in Verifying : conc.proc[q].pc = "done"
    /\ Len(users) = 1

\* C26: every QR_EXPIRED event has a timestamp strictly later than the
\* expiry of the identity it refers to.
C26_ExpiredEventAfterExpiry ==
    \A i \in 1..Len(events) :
        events[i].error_code = Some("QR_EXPIRED") =>
            LET expires_at == users[Get(events[i].user_id)].qr_expires_at
            IN  /\ IsSome(expires_at)
                /\ ~IsoLeq(events[i].timestamp, Get(expires_at))

====
